---- MODULE Spec2Model ----
(***************************************************************************)
(* Incremental scrapers of joaoaapinho/stock_prediction:                   *)
(*   src/scraping/scrapers/candles.py        scrape_yahoo_finance          *)
(*   src/scraping/scrapers/inside_trades.py  aggregate_by_day,             *)
(*                                           scrape_insider_trades         *)
(* One action is one iteration of a scraper's "for ticker in tickers"      *)
(* loop: read the ticker's CSV, decide whether to fetch, fetch, merge,      *)
(* write, sleep.  Dates are day numbers; a candle row carries one value    *)
(* standing for its open/high/low/close/volume columns, which the code     *)
(* always moves together.                                                  *)
(***************************************************************************)
EXTENDS Integers, Sequences, FiniteSets, TLC

\* ---------------------------------------------------------------- bounds
MaxDay == 3          \* calendar days 1..MaxDay occur in fetched data
MaxBatch == 2        \* rows (candles) or transactions (Form 4) in one fetch
MaxAggLen == 3       \* transactions handed to aggregate_by_day on its own

Days == 1..MaxDay
Vals == {1, 2}                    \* two values tell an old row from a new one
Hours == {0, 16}                 \* a day's bar is stamped at midnight or, while live, later
MaxToday == MaxDay + 2
Tickers == {"AAPL", "MSFT", "GOOG"}

\* ------------------------------------------------------------- sequences
RECURSIVE SeqsUpTo(_, _)
SeqsUpTo(S, n) ==
  IF n = 0 THEN {<<>>}
  ELSE LET shorter == SeqsUpTo(S, n - 1)
       IN  shorter \cup {Append(s, x) : s \in {t \in shorter : Len(t) = n - 1}, x \in S}

Range(s) == {s[i] : i \in DOMAIN s}

Remove(s, i) == [j \in 1..(Len(s) - 1) |-> IF j < i THEN s[j] ELSE s[j + 1]]

\* DataFrame['date'].min(): the first date on file taken for the last.
MinDate(rows) ==
  CHOOSE m \in {rows[i].date : i \in DOMAIN rows} : \A i \in DOMAIN rows : m <= rows[i].date

\* DataFrame['date'].max()
MaxDate(rows) ==
  CHOOSE m \in {rows[i].date : i \in DOMAIN rows} : \A i \in DOMAIN rows : rows[i].date <= m

\* A CSV in the save folder: absent, or the rows that to_csv wrote.
NoFile == [exists |-> FALSE, rows |-> <<>>]
File(rows) == [exists |-> TRUE, rows |-> rows]

\* DataFrame.sort_values('date').  pandas sorts with kind='quicksort', which
\* is not stable: rows of equal date may come out in any order.  The result
\* is the set of every arrangement the call can produce.
RECURSIVE sort_values(_)
sort_values(rows) ==
  IF rows = <<>> THEN {<<>>}
  ELSE LET lo == CHOOSE d \in {rows[i].date : i \in DOMAIN rows} :
                    \A i \in DOMAIN rows : d <= rows[i].date
       IN  UNION {{<<rows[i]>> \o rest : rest \in sort_values(Remove(rows, i))} :
                   i \in {j \in DOMAIN rows : rows[j].date = lo}}

\* DataFrame.drop_duplicates(subset=..., keep='last'): a row stays unless a
\* later row has the same key; the order of the rows that stay is kept.
drop_duplicates(rows, subset) ==
  LET Key(r) == [c \in subset |-> r[c]]
      keep == {i \in DOMAIN rows :
                 \A j \in DOMAIN rows : j > i => Key(rows[j]) # Key(rows[i])}
      RECURSIVE Pick(_)
      Pick(i) == IF i > Len(rows) THEN <<>>
                 ELSE (IF i \in keep THEN <<rows[i]>> ELSE <<>>) \o Pick(i + 1)
  IN  Pick(1)

\* ------------------------------------------------ inside_trades.py: pure
\* One parsed Form 4 transaction, the tuple (date, shares, amount, buy_flag)
\* of parse_form4.  ISO date strings order as the days they name.
Txn(d, s, a, f) == [date |-> d, shares |-> s, amount |-> a, flag |-> f]

\* aggregate_by_day with `=` for `+=`: the last transaction of a key stands.
RECURSIVE AccumulateLast(_, _)
AccumulateLast(transactions, daily) ==
  IF transactions = <<>> THEN daily
  ELSE LET t == Head(transactions)
           key == <<t.date, t.flag>>
           d0 == IF key \in DOMAIN daily THEN daily
                 ELSE daily @@ (key :> [shares |-> 0, amount |-> 0])
       IN  AccumulateLast(Tail(transactions),
                          [d0 EXCEPT ![key] = [shares |-> t.shares, amount |-> t.amount]])

\* The loop of aggregate_by_day: the dict `daily`, keyed by (date, flag).
RECURSIVE Accumulate(_, _)
Accumulate(transactions, daily) ==
  IF transactions = <<>> THEN daily
  ELSE LET t == Head(transactions)
           key == <<t.date, t.flag>>
           d0 == IF key \in DOMAIN daily THEN daily
                 ELSE daily @@ (key :> [shares |-> 0, amount |-> 0])
       IN  Accumulate(Tail(transactions),
                      [d0 EXCEPT ![key] = [shares |-> @.shares + t.shares,
                                           amount |-> @.amount + t.amount]])

\* The order on (date, buy_flag) alone, as a sort with key=(d, b) would use.
TupleLessByDirection(a, b) ==
  \/ a.date < b.date
  \/ a.date = b.date /\ a.buy_flag < b.buy_flag

\* Python's order on the tuples (d, shares, amount, b) that sorted() uses.
TupleLess(a, b) ==
  \/ a.date < b.date
  \/ a.date = b.date /\ a.shares < b.shares
  \/ a.date = b.date /\ a.shares = b.shares /\ a.amount < b.amount
  \/ a.date = b.date /\ a.shares = b.shares /\ a.amount = b.amount
       /\ a.buy_flag < b.buy_flag

RECURSIVE sorted(_)
sorted(S) ==
  IF S = {} THEN <<>>
  ELSE LET m == CHOOSE x \in S : \A y \in S \ {x} : TupleLess(x, y)
       IN  <<m>> \o sorted(S \ {m})

aggregate_by_day(transactions) ==
  LET daily == Accumulate(transactions, <<>>)
  IN  sorted({[date |-> k[1], shares |-> daily[k].shares,
               amount |-> daily[k].amount, buy_flag |-> k[2]] : k \in DOMAIN daily})

\* ------------------------------------------------------------------ state
VARIABLES
  kind,       \* which scraper this data directory belongs to: "candles" | "insider"
  files,      \* save_folder: ticker -> its CSV (NoFile when absent)
  tickers,    \* the list the running call was given
  counter,    \* `counter`: tickers of the list visited so far
  today,      \* pd.Timestamp.now().date() as a day number
  needDelay,  \* a request of this call has been sent and no sleep has followed it
  last,       \* what the last loop iteration read and did
  outcomes,   \* the outcome of each ticker visited by the running call
  aggIn,      \* argument of a stand-alone aggregate_by_day call
  aggOut      \* its return value, once it has returned: <<"returned", rows>>

vars == <<kind, files, tickers, counter, today, needDelay, last, outcomes, aggIn, aggOut>>

\* What one loop iteration leaves behind for the next statement of its caller.
Result(file, outcome, fetched, slept, data) ==
  [file |-> file, outcome |-> outcome, fetched |-> fetched, slept |-> slept,
   data |-> data]

\* ------------------------------------------------------------- candles.py
\* What stock.history() hands back: an exception, or rows indexed by a
\* timestamp `Date`, <<day, hour>>, with their price columns.
RawCandle(ts, v) == [Date |-> ts, val |-> v]
FetchError == [raises |-> TRUE, data |-> <<>>]
Fetched(data) == [raises |-> FALSE, data |-> data]

\* pd.to_datetime(data['date']).dt.date: the timestamp's calendar day.
to_date(ts) == ts[1]

\* reset_index, rename, column selection and the date conversion.
normalize(data) == [i \in DOMAIN data |-> [date |-> to_date(data[i].Date), val |-> data[i].val]]

\* The up-to-date test without the day of grace.
up_to_date_today_only(last_date, now) == last_date >= now

\* "If the latest date is today or yesterday": the file's last date against
\* today - timedelta(days=1).
candles_up_to_date(last_date, now) == last_date >= now - 1

\* A merge that takes every fetched row, whatever its date.
every_row(data, last_date) == data

\* data[data['date'] >= last_date]
newer_or_equal(data, last_date) ==
  LET NotOlder(r) == r.date >= last_date IN SelectSeq(data, NotOlder)

\* data[data['date'] > last_date]
newer_than(data, last_date) ==
  LET Newer(r) == r.date > last_date IN SelectSeq(data, Newer)

\* The append without drop_duplicates.
append_candles_keep_all(existing_data, new_data) ==
  {File(updated) : updated \in sort_values(existing_data \o new_data)}

\* concat, sort_values, drop_duplicates(subset=['date'], keep='last'), to_csv
append_candles(existing_data, new_data) ==
  {File(drop_duplicates(updated, {"date"})) : updated \in sort_values(existing_data \o new_data)}

\* should_download: no file yet, or a file that is not up to date.
candles_should_download(file, now) ==
  ~(file.exists /\ file.rows # <<>> /\ candles_up_to_date(MaxDate(file.rows), now))

\* From "Sort by date" to the to_csv calls: `data`, the renamed batch, is
\* sorted and then appended to the file or saved as a new one.
candles_merge(file, data) ==
  UNION {
    IF file.exists
    THEN LET new_data == newer_than(sorted_data, MaxDate(file.rows))
         IN  IF new_data # <<>>
             THEN {Result(f, "appended", TRUE, TRUE, sorted_data) :
                     f \in append_candles(file.rows, new_data)}
             ELSE {Result(file, "no_new_data", TRUE, TRUE, sorted_data)}
    ELSE {Result(File(sorted_data), "created", TRUE, TRUE, sorted_data)}
    : sorted_data \in sort_values(data)}

\* One iteration of the loop of scrape_yahoo_finance over `file`, the CSV of
\* its ticker, with the clock at `now` and the source answering `fetch`.
candles_iteration(file, now, fetch) ==
  IF file.exists /\ file.rows = <<>>
  THEN \* max() of no dates is NaT, which does not compare with a date
       {Result(file, "error", FALSE, FALSE, <<>>)}
  ELSE IF ~candles_should_download(file, now)
  THEN {Result(file, "up_to_date", FALSE, FALSE, <<>>)}
  ELSE IF fetch.raises THEN {Result(file, "error", TRUE, FALSE, <<>>)}
  ELSE IF fetch.data = <<>> THEN {Result(file, "empty", TRUE, FALSE, <<>>)}
  ELSE candles_merge(file, normalize(fetch.data))

\* ------------------------------------------------------- inside_trades.py
\* What downloader.get() plus the parse of the filings directory hands back:
\* an exception, no Form 4 directory, or the list all_transactions.
NoFilings == [raises |-> FALSE, dir |-> FALSE, data |-> <<>>]
FilingsError == [raises |-> TRUE, dir |-> FALSE, data |-> <<>>]
Filings(all_transactions) == [raises |-> FALSE, dir |-> TRUE, data |-> all_transactions]

\* last_insider_date >= latest_date
insider_up_to_date(last_insider_date, latest_date) == last_insider_date >= latest_date

\* The append without the concat: new_data alone is written.
append_trades_new_only(existing_data, new_data) ==
  {File(drop_duplicates(updated, {"date", "buy_flag"})) : updated \in sort_values(new_data)}

\* concat, sort_values, drop_duplicates(subset=['date','buy_flag'], keep='last'), to_csv
append_trades(existing_data, new_data) ==
  {File(drop_duplicates(updated, {"date", "buy_flag"})) : updated \in sort_values(existing_data \o new_data)}

\* Whether the iteration reaches downloader.get(): the candles are there and
\* the trades on file, if any, end before them.
insider_should_download(file, candles) ==
  /\ candles.exists
  /\ candles.rows # <<>>
  /\ ~(file.exists /\ file.rows # <<>>
        /\ insider_up_to_date(MaxDate(file.rows), MaxDate(candles.rows)))

\* From the DataFrame of daily_data to the to_csv calls.
insider_merge(file, daily_data) ==
  UNION {
    IF file.exists /\ file.rows # <<>>
    THEN LET new_data == newer_than(new_df, MaxDate(file.rows))
         IN  IF new_data # <<>>
             THEN {Result(f, "appended", TRUE, TRUE, new_df) :
                     f \in append_trades(file.rows, new_data)}
             ELSE {Result(file, "no_new_data", TRUE, TRUE, new_df)}
    ELSE {Result(File(new_df), "created", TRUE, TRUE, new_df)}
    : new_df \in sort_values(daily_data)}

\* One iteration of the loop of scrape_insider_trades over `file`, the CSV
\* of its ticker, with `candles` the ticker's file in candles_folder and the
\* filings source answering `fetch`.
insider_iteration(file, candles, fetch) ==
  IF ~candles.exists \/ candles.rows = <<>>
  THEN {Result(file, "no_candles", FALSE, FALSE, <<>>)}
  ELSE IF ~insider_should_download(file, candles)
  THEN {Result(file, "up_to_date", FALSE, FALSE, <<>>)}
  ELSE IF fetch.raises THEN {Result(file, "error", TRUE, FALSE, <<>>)}
  ELSE IF ~fetch.dir \/ fetch.data = <<>> THEN {Result(file, "empty", TRUE, FALSE, <<>>)}
  ELSE insider_merge(file, aggregate_by_day(fetch.data))

\* ---------------------------------------------------------------- inputs
\* Data a record source may answer with.
\* stock.history() answers with a chronological index: the timestamps of a
\* batch ascend.  (The scraper sorts what it gets, so the order of a batch
\* reaches no file.)
RawCandles == {RawCandle(<<d, h>>, v) : d \in Days, h \in Hours, v \in Vals}
Chronological(s) ==
  \A i \in 1..(Len(s) - 1) :
    \/ s[i].Date[1] < s[i + 1].Date[1]
    \/ s[i].Date[1] = s[i + 1].Date[1] /\ s[i].Date[2] < s[i + 1].Date[2]
CandleFetches ==
  {FetchError} \cup {Fetched(s) : s \in {b \in SeqsUpTo(RawCandles, MaxBatch) : Chronological(b)}}

Txns(dates, shares, prices) ==
  {Txn(d, s, s * p, f) : d \in dates, s \in shares, p \in prices, f \in {0, 1}}
\* The filings of a directory are listed date by date, sales before purchases.
\* (aggregate_by_day sums per key and sorts, so the order of the transactions
\* reaches no file.)
Listed(s) ==
  \A i \in 1..(Len(s) - 1) :
    \/ s[i].date < s[i + 1].date
    \/ s[i].date = s[i + 1].date /\ s[i].flag <= s[i + 1].flag
FilingFetches ==
  {FilingsError, NoFilings} \cup
  {Filings(s) : s \in {b \in SeqsUpTo(Txns(Days, {1}, {1}), MaxBatch) : Listed(b)}}

\* The ticker's candle CSV as the insider scraper may find it: absent, empty,
\* or one row per day from `e` to `l`.
CandleSeries(e, l) == [i \in 1..(l - e + 1) |-> [date |-> e + i - 1]]
Companions == {NoFile, File(<<>>)} \cup {File(CandleSeries(1, l)) : l \in Days}

\* A loop with several tickers: the sources answer with at most one row, of
\* one value, so that the product of the tickers' files stays small.
BatchCandleFetches ==
  {FetchError, Fetched(<<>>)} \cup {Fetched(<<RawCandle(<<d, 0>>, 1)>>) : d \in 1..2}
BatchFilingFetches ==
  {FilingsError, NoFilings, Filings(<<>>)} \cup {Filings(<<Txn(d, 1, 1, 1)>>) : d \in 1..2}
BatchCompanions == {NoFile} \cup {File(CandleSeries(1, l)) : l \in 1..2}

RECURSIVE Arrangements(_)
Arrangements(S) ==
  {<<>>} \cup UNION {{<<t>> \o rest : rest \in Arrangements(S \ {t})} : t \in S}
OneTicker == {<<"AAPL">>}
TickerLists == Arrangements(Tickers) \ {<<>>}

\* ----------------------------------------------------------------- actions
Idle ==
  [ticker |-> "", outcome |-> "idle", fetched |-> FALSE, slept |-> FALSE,
   undelayed |-> FALSE, before |-> NoFile, data |-> <<>>, now |-> 0,
   candles |-> NoFile]

Init ==
  /\ kind \in {"candles", "insider"}
  /\ files = [t \in Tickers |-> NoFile]
  /\ tickers = <<>>
  /\ counter = 0
  /\ today = 1
  /\ needDelay = FALSE
  /\ last = Idle
  /\ outcomes = <<>>
  /\ aggIn = <<>>
  /\ aggOut = <<>>

\* scrape_yahoo_finance(tickers) / scrape_insider_trades(tickers) is called
\* once the previous call has returned.
Call(lists) ==
  /\ counter = Len(tickers)
  /\ tickers' \in lists
  /\ counter' = 0
  /\ needDelay' = FALSE
  /\ last' = Idle
  /\ outcomes' = <<>>
  /\ UNCHANGED <<kind, files, today, aggIn, aggOut>>

\* The loop with its try around the for: the first error ends the call.
IterateUntilError(t, r, candles) ==
  /\ files' = [files EXCEPT ![t] = r.file]
  /\ counter' = IF r.outcome = "error" THEN Len(tickers) ELSE counter + 1
  /\ needDelay' = IF r.slept THEN FALSE ELSE (r.fetched \/ needDelay)
  /\ last' = [ticker |-> t, outcome |-> r.outcome, fetched |-> r.fetched,
              slept |-> r.slept, undelayed |-> r.fetched /\ needDelay,
              before |-> files[t], data |-> r.data, now |-> today,
              candles |-> candles]
  /\ outcomes' = Append(outcomes, r.outcome)
  /\ UNCHANGED <<kind, tickers, today, aggIn, aggOut>>

\* The effect of one iteration for ticker t with result r.
Iterate(t, r, candles) ==
  /\ files' = [files EXCEPT ![t] = r.file]
  /\ counter' = counter + 1
  /\ needDelay' = IF r.slept THEN FALSE ELSE (r.fetched \/ needDelay)
  /\ last' = [ticker |-> t, outcome |-> r.outcome, fetched |-> r.fetched,
              slept |-> r.slept, undelayed |-> r.fetched /\ needDelay,
              before |-> files[t], data |-> r.data, now |-> today,
              candles |-> candles]
  /\ outcomes' = Append(outcomes, r.outcome)
  /\ UNCHANGED <<kind, tickers, today, aggIn, aggOut>>

CandlesIteration(fetches) ==
  /\ kind = "candles"
  /\ counter < Len(tickers)
  /\ LET file == files[tickers[counter + 1]]
     IN  \E fetch \in IF candles_should_download(file, today) THEN fetches ELSE {FetchError} :
           \E r \in candles_iteration(file, today, fetch) :
             Iterate(tickers[counter + 1], r, NoFile)

InsiderIteration(fetches, companions) ==
  /\ kind = "insider"
  /\ counter < Len(tickers)
  /\ LET file == files[tickers[counter + 1]]
     IN  \E candles \in companions :
           \E fetch \in IF insider_should_download(file, candles) THEN fetches
                        ELSE {FilingsError} :
             \E r \in insider_iteration(file, candles, fetch) :
               Iterate(tickers[counter + 1], r, candles)

\* The calendar moves on.
NextDay ==
  /\ kind = "candles"
  /\ today < MaxToday
  /\ today' = today + 1
  /\ UNCHANGED <<kind, files, tickers, counter, needDelay, last, outcomes, aggIn, aggOut>>

\* One scraper, one ticker, any data: the incremental store.
Next ==
  \/ Call(OneTicker)
  \/ CandlesIteration(CandleFetches)
  \/ InsiderIteration(FilingFetches, Companions)
  \/ NextDay

Spec == Init /\ [][Next]_vars

\* One scraper looping over a list of tickers: the batch runner.
NextBatch ==
  \/ Call(TickerLists)
  \/ CandlesIteration(BatchCandleFetches)
  \/ InsiderIteration(BatchFilingFetches, BatchCompanions)
  \/ NextDay

SpecBatch == Init /\ [][NextBatch]_vars

\* aggregate_by_day called on its own.
AggTxns == Txns({1, 2}, {1, 2}, {0, 1})

InitAgg ==
  /\ kind = "insider"
  /\ files = [t \in Tickers |-> NoFile]
  /\ tickers = <<>>
  /\ counter = 0
  /\ today = 1
  /\ needDelay = FALSE
  /\ last = Idle
  /\ outcomes = <<>>
  /\ aggIn \in SeqsUpTo(AggTxns, MaxAggLen)
  /\ aggOut = <<>>

Aggregate ==
  /\ aggOut = <<>>
  /\ aggOut' = <<"returned", aggregate_by_day(aggIn)>>
  /\ UNCHANGED <<kind, files, tickers, counter, today, needDelay, last, outcomes, aggIn>>

SpecAgg == InitAgg /\ [][Aggregate]_vars

\* ------------------------------------------------------------- properties
\* The dedupe key of the running scraper: date for candles, (date, buy_flag)
\* for insider trades.
KeyOf(r) == IF kind = "candles" THEN <<r.date>> ELSE <<r.date, r.buy_flag>>
Keys(rows) == {KeyOf(rows[i]) : i \in DOMAIN rows}
RowsWith(rows, k) == {rows[i] : i \in {j \in DOMAIN rows : KeyOf(rows[j]) = k}}
Dates(rows) == {rows[i].date : i \in DOMAIN rows}
Latest(rows) == CHOOSE d \in Dates(rows) : \A e \in Dates(rows) : e <= d
Count(rows, r) == Cardinality({i \in DOMAIN rows : rows[i] = r})
UniqueKeys(rows) ==
  \A i \in DOMAIN rows, j \in DOMAIN rows : i < j => KeyOf(rows[i]) # KeyOf(rows[j])
NonDescending(rows) == \A i \in 1..(Len(rows) - 1) : rows[i].date <= rows[i + 1].date
StrictlyAscending(rows) == \A i \in 1..(Len(rows) - 1) : rows[i].date < rows[i + 1].date

\* The last iteration ran the update path: a file was there and data came.
Updated == last.outcome \in {"appended", "no_new_data"}
Merged == last.outcome \in {"created", "appended", "no_new_data"}
Existing == last.before.rows
Incoming == last.data
Persisted == files[last.ticker].rows
\* The incoming rows dated after everything on file.
Newer ==
  LET After(r) == r.date > Latest(Existing) IN SelectSeq(Incoming, After)

\* C1 as stated: when an incoming row has the key of a row on file, the file
\* holds, after the update, the incoming row's values for that key.
C1_IncomingWins ==
  Updated =>
    \A i \in DOMAIN Incoming :
      KeyOf(Incoming[i]) \in Keys(Existing) =>
        RowsWith(Persisted, KeyOf(Incoming[i])) \subseteq RowsWith(Incoming, KeyOf(Incoming[i]))

\* C1 amended: when an incoming row has the key of a row on file, the file
\* holds, after the update, values that were on file for that key: the
\* incoming row is not newer than the file and is dropped.
C1_ExistingWins ==
  Updated =>
    \A i \in DOMAIN Incoming :
      KeyOf(Incoming[i]) \in Keys(Existing) =>
        /\ RowsWith(Persisted, KeyOf(Incoming[i])) # {}
        /\ RowsWith(Persisted, KeyOf(Incoming[i])) \subseteq RowsWith(Existing, KeyOf(Incoming[i]))

\* An append where the batch also carried other values for a key on file.
C1_Witness ==
  /\ last.outcome = "appended"
  /\ \E i \in DOMAIN Incoming :
       /\ KeyOf(Incoming[i]) \in Keys(Existing)
       /\ Incoming[i] \notin Range(Existing)
       /\ Incoming[i] \notin Range(Persisted)

\* C2 as stated: every file has strictly ascending dates and no two rows of
\* one dedupe key.
C2_StrictlyAscending ==
  \A t \in Tickers :
    files[t].exists => StrictlyAscending(files[t].rows) /\ UniqueKeys(files[t].rows)

\* C2 amended: every file is sorted by date, non-descending; an insider file
\* never holds two rows of one (date, buy_flag); a candle file holds no two
\* rows of one date once an append has written it, and holds the sorted batch
\* as fetched, repeated dates included, when it has just been created.
C2_SortedAndDeduped ==
  \A t \in Tickers :
    files[t].exists =>
      /\ NonDescending(files[t].rows)
      /\ kind = "insider" => UniqueKeys(files[t].rows)
      /\ (last.ticker = t /\ last.outcome = "appended") => UniqueKeys(files[t].rows)
      /\ (last.ticker = t /\ last.outcome = "created") => files[t].rows = Incoming

\* An append has removed a date that the created file held twice.
C2_Witness ==
  /\ last.outcome = "appended"
  /\ ~UniqueKeys(Existing)
  /\ UniqueKeys(Persisted)

\* C3: applying the merge again, with the batch of the last iteration, to
\* the file that iteration left changes nothing, because no row of the batch
\* is dated after the file.
C3_Idempotent ==
  Merged =>
    /\ \A i \in DOMAIN Incoming : Incoming[i].date <= Latest(Persisted)
    /\ \A r \in IF kind = "candles" THEN candles_merge(files[last.ticker], Incoming)
                ELSE insider_merge(files[last.ticker], Incoming) :
         r.file = files[last.ticker] /\ r.outcome = "no_new_data"

\* The first application did write: it added rows to a file.
C3_Witness ==
  /\ last.outcome = "appended"
  /\ Len(Persisted) > Len(Existing)
  /\ Len(Incoming) > 1

\* C7 as stated: the update adds exactly the incoming rows dated after the
\* file's last date and keeps every row that was on file.
C7_ExactlyNewerAdded ==
  Updated =>
    \A r \in Range(Existing) \cup Range(Incoming) \cup Range(Persisted) :
      Count(Persisted, r) = Count(Existing, r) + Count(Newer, r)

\* C7 amended: the update adds exactly the dedupe keys of the incoming rows
\* dated after the file's last date, and keeps every key on file; no incoming
\* row dated on or before that date reaches the file, whether or not its date
\* was on file; every row on file afterwards was on file or is one of the
\* newer rows; and where neither the file nor the newer rows repeat a key,
\* the rows afterwards are exactly the rows on file plus the newer rows.
C7_GapBlind ==
  Updated =>
    LET newer == Range(Newer)
        old == Range(Existing)
        now == Range(Persisted)
    IN  /\ Keys(Persisted) = Keys(Existing) \cup Keys(Newer)
        /\ now \subseteq old \cup newer
        /\ \A r \in Range(Incoming) \ old : r.date <= Latest(Existing) => r \notin now
        /\ (UniqueKeys(Existing) /\ UniqueKeys(Newer)) =>
             /\ now = old \cup newer
             /\ Len(Persisted) = Len(Existing) + Len(Newer)

\* The batch held a day missing from the file, before its last date, and a
\* later day: the later day was appended and the missing day was not.
C7_Witness ==
  /\ last.outcome = "appended"
  /\ \E i \in DOMAIN Incoming :
       /\ Incoming[i].date < Latest(Existing)
       /\ Incoming[i].date \notin Dates(Existing)
       /\ Incoming[i].date \notin Dates(Persisted)
  /\ \E i \in DOMAIN Incoming :
       /\ Incoming[i].date > Latest(Existing)
       /\ Incoming[i] \in Range(Persisted)

\* C8: when the up-to-date predicate holds of what the iteration read (the
\* candle file's last date is today - 1 or later; the insider file's last
\* date is the candle series' last date or later), the iteration sends no
\* request and the file is as it was.
C8_StalenessSkip ==
  (/\ last.outcome # "idle"
   /\ last.before.exists
   /\ Existing # <<>>
   /\ \/ kind = "candles" /\ Latest(Existing) >= last.now - 1
      \/ /\ kind = "insider"
         /\ last.candles.exists
         /\ last.candles.rows # <<>>
         /\ Latest(Existing) >= Latest(last.candles.rows))
  => /\ ~last.fetched
     /\ last.outcome = "up_to_date"
     /\ files[last.ticker] = last.before

\* A candle file whose last date is yesterday was skipped.
C8_Witness ==
  /\ kind = "candles"
  /\ last.outcome = "up_to_date"
  /\ Latest(Existing) = last.now - 1
  /\ ~last.fetched

\* C10: a step never removes a file or a dedupe key of it, never leaves it
\* empty, and changes it only by an append of at least one key, every added
\* key dated after the file's last date.
C10_NoDeletion ==
  [][\A t \in Tickers :
       files[t].exists =>
         /\ files'[t].exists
         /\ files'[t].rows # <<>>
         /\ Keys(files[t].rows) \subseteq Keys(files'[t].rows)
         /\ files'[t] # files[t] =>
              /\ last'.ticker = t
              /\ last'.outcome = "appended"
              /\ Keys(files'[t].rows) # Keys(files[t].rows)
              /\ \A i \in DOMAIN files'[t].rows :
                   KeyOf(files'[t].rows[i]) \notin Keys(files[t].rows)
                     => files'[t].rows[i].date > Latest(files[t].rows)]_vars

\* A file of two days to which a third was appended.
C10_Witness ==
  /\ last.outcome = "appended"
  /\ Cardinality(Dates(Existing)) > 1
  /\ Cardinality(Dates(Persisted)) > Cardinality(Dates(Existing))

\* C4: a call visits its list in order, one ticker per iteration, and
\* returns only after the last one; an iteration changes no file but its own
\* ticker's, and an iteration that ends in an error changes none.
C4_BatchIsolation ==
  [][/\ (counter' < counter \/ tickers' # tickers) => counter = Len(tickers)
     /\ counter' > counter =>
          /\ counter' = counter + 1
          /\ tickers' = tickers
          /\ last'.ticker = tickers[counter']
          /\ outcomes' = Append(outcomes, last'.outcome)
          /\ \A u \in Tickers \ {last'.ticker} : files'[u] = files[u]
          /\ last'.outcome = "error" => files' = files]_vars

\* Three tickers, the second one's fetch raised, the first and the third
\* have their files.
C4_Witness ==
  /\ Len(tickers) = 3
  /\ outcomes = <<"created", "error", "created">>
  /\ files[tickers[1]].exists
  /\ ~files[tickers[2]].exists
  /\ files[tickers[3]].exists

\* C9 as stated: a request is sent only when the sleep has run since the
\* previous request of the call.
C9_DelayBetweenFetches == ~last.undelayed

\* The transactions of aggIn with key k, totalled up to index n.
RECURSIVE TotalShares(_, _)
TotalShares(n, k) ==
  IF n = 0 THEN 0
  ELSE TotalShares(n - 1, k)
       + (IF <<aggIn[n].date, aggIn[n].flag>> = k THEN aggIn[n].shares ELSE 0)
RECURSIVE TotalAmount(_, _)
TotalAmount(n, k) ==
  IF n = 0 THEN 0
  ELSE TotalAmount(n - 1, k)
       + (IF <<aggIn[n].date, aggIn[n].flag>> = k THEN aggIn[n].amount ELSE 0)
AggKeys == {<<aggIn[i].date, aggIn[i].flag>> : i \in DOMAIN aggIn}
Returned == aggOut # <<>>
AggRows == aggOut[2]

\* C5: aggregate_by_day returns one row per (date, direction) of its input,
\* with the shares and the amounts of that pair summed; nothing for nothing.
C5_AggregationSums ==
  Returned =>
    /\ Len(AggRows) = Cardinality(AggKeys)
    /\ \A k \in AggKeys :
         \E j \in DOMAIN AggRows :
           AggRows[j] = [date |-> k[1], shares |-> TotalShares(Len(aggIn), k),
                         amount |-> TotalAmount(Len(aggIn), k), buy_flag |-> k[2]]
    /\ aggIn = <<>> => AggRows = <<>>

\* Three transactions, two of one key: two rows, one of them a sum.
C5_Witness ==
  /\ Returned
  /\ Len(aggIn) = 3
  /\ Len(AggRows) = 2
  /\ \E j \in DOMAIN AggRows, i \in DOMAIN aggIn : AggRows[j].shares > aggIn[i].shares
                                                  /\ AggRows[j].date = aggIn[i].date
                                                  /\ AggRows[j].buy_flag = aggIn[i].flag

\* C6 as stated: the rows come out ascending by (date, direction).
C6_SortedByDateDirection ==
  Returned =>
    \A i \in DOMAIN AggRows, j \in DOMAIN AggRows :
      i < j => \/ AggRows[i].date < AggRows[j].date
               \/ /\ AggRows[i].date = AggRows[j].date
                  /\ AggRows[i].buy_flag < AggRows[j].buy_flag

\* C6 amended: the rows come out ascending by (date, shares, amount,
\* direction): rows of one date are ordered by their summed shares first.
C6_SortedAsTuples ==
  Returned =>
    \A i \in DOMAIN AggRows, j \in DOMAIN AggRows :
      i < j =>
        LET a == AggRows[i]
            b == AggRows[j]
        IN  \/ a.date < b.date
            \/ a.date = b.date /\ a.shares < b.shares
            \/ a.date = b.date /\ a.shares = b.shares /\ a.amount < b.amount
            \/ /\ a.date = b.date
               /\ a.shares = b.shares
               /\ a.amount = b.amount
               /\ a.buy_flag < b.buy_flag

\* A purchase of fewer shares comes out before a sale of the same day.
C6_Witness ==
  /\ Returned
  /\ \E i \in DOMAIN AggRows, j \in DOMAIN AggRows :
       /\ i < j
       /\ AggRows[i].date = AggRows[j].date
       /\ AggRows[i].buy_flag > AggRows[j].buy_flag
       /\ AggRows[i].shares < AggRows[j].shares

====
